---- MODULE Spec2Model ----
(***************************************************************************)
(* Model of the document research pipeline (src/app): the paragraph        *)
(* chunker and file dispatcher (core/document_processor.py), the vector    *)
(* store wrapper (core/retrieval.py), the answer extractor and theme       *)
(* synthesizer (core/generation.py) and the three button handlers of the   *)
(* session layer (main.py).                                                *)
(*                                                                         *)
(* Python values whose type is only known at run time (parsed JSON, the    *)
(* optional fields of the pydantic models) are tagged tuples:              *)
(*   <<"None">>, <<"bool", b>>, <<"int", n>>, <<"str", s>>,                *)
(*   <<"list", seq>>, <<"dict", f>>  (f a function on its keys).           *)
(* Text is a TLA+ string; Len, \o and SubSeq act on it character-wise.     *)
(* A call either returns, <<"ok", value>>, or raises,                      *)
(* <<"raise", class, message>>.                                            *)
(***************************************************************************)
EXTENDS Integers, Sequences, FiniteSets, TLC

VARIABLES
    client,             \* chromadb.Client(): the collection it holds under collection_name,
                        \* and what this chromadb release does with an id it already holds
    collection,         \* VectorStore.collection: the handle (collection id) the store uses
    processed_doc_ids,  \* st.session_state.processed_doc_ids
    results,            \* st.session_state.results
    themes,             \* st.session_state.themes
    handed,             \* storage ids handed to add_documents since the last reset
    handed_twice,       \* those handed more than once since the last reset
    last,               \* the handler that ran last, with what it observed
    call,               \* a single function call under study: its name and arguments
    ret                 \* what that call returned

vars == <<client, collection, processed_doc_ids, results, themes,
          handed, handed_twice, last, call, ret>>

session_vars == <<client, collection, processed_doc_ids, results, themes,
                  handed, handed_twice, last>>

(***************************************************************************)
(* Bounds of the model.                                                    *)
(***************************************************************************)
MaxTextLen == 5
MaxSnippets == 2
MaxPage == 2
MaxAnswers == 2
MaxThemes == 2
MaxBatch == 2
MaxPdfPages == 2

(***************************************************************************)
(* Python values and call outcomes.                                        *)
(***************************************************************************)
PyNone == <<"None">>
PyBool(b) == <<"bool", b>>
PyInt(n) == <<"int", n>>
PyStr(s) == <<"str", s>>
PyList(q) == <<"list", q>>
PyDict(f) == <<"dict", f>>

Tag(v) == v[1]
Val(v) == v[2]

Ok(v) == <<"ok", v>>
Raise(cls, msg) == <<"raise", cls, msg>>
IsOk(r) == r[1] = "ok"
IsRaise(r) == r[1] = "raise"

NotCalled == [out |-> <<"not called">>, gen_calls |-> 0]

(***************************************************************************)
(* Python str operations used by the code.                                 *)
(***************************************************************************)
Whitespace == {" ", "\n", "\t", "\r"}

CharAt(s, i) == SubSeq(s, i, i)

\* sub in s
Contains(s, sub) ==
    \E i \in 1..(Len(s) - Len(sub) + 1) : SubSeq(s, i, i + Len(sub) - 1) = sub

\* s.endswith(suffix)
EndsWith(s, suffix) ==
    /\ Len(suffix) <= Len(s)
    /\ SubSeq(s, Len(s) - Len(suffix) + 1, Len(s)) = suffix

RECURSIVE LStrip(_)
LStrip(s) ==
    IF Len(s) > 0 /\ CharAt(s, 1) \in Whitespace
    THEN LStrip(SubSeq(s, 2, Len(s)))
    ELSE s

RECURSIVE RStrip(_)
RStrip(s) ==
    IF Len(s) > 0 /\ CharAt(s, Len(s)) \in Whitespace
    THEN RStrip(SubSeq(s, 1, Len(s) - 1))
    ELSE s

\* s.strip()
Strip(s) == RStrip(LStrip(s))

\* s.split(sep): cut at each occurrence of sep, found left to right without overlap
RECURSIVE Split(_, _)
Split(s, sep) ==
    LET hits == {i \in 1..(Len(s) - Len(sep) + 1) : SubSeq(s, i, i + Len(sep) - 1) = sep}
    IN  IF hits = {}
        THEN <<s>>
        ELSE LET i == CHOOSE h \in hits : \A g \in hits : h <= g
             IN  <<SubSeq(s, 1, i - 1)>> \o Split(SubSeq(s, i + Len(sep), Len(s)), sep)

(***************************************************************************)
(* core/utils.py: DocumentSnippet.                                         *)
(***************************************************************************)
DocumentSnippet(doc_id, content, page, paragraph) ==
    [doc_id |-> doc_id, content |-> content, page |-> page, paragraph |-> paragraph]

(***************************************************************************)
(* core/document_processor.py: _chunk_text_into_snippets.                  *)
(***************************************************************************)
\* [p.strip() for p in text.split('\n\n') if p.strip()]
ParagraphsDropBlankOnly(text) ==
    LET parts == Split(text, "\n\n")
        kept == SelectSeq(parts, LAMBDA p : p # "")
    IN  [i \in 1..Len(kept) |-> Strip(kept[i])]

Paragraphs(text) ==
    LET parts == Split(text, "\n\n")
        kept == SelectSeq(parts, LAMBDA p : Strip(p) # "")
    IN  [i \in 1..Len(kept) |-> Strip(kept[i])]

_chunk_text_into_snippets(doc_id, page_num, text) ==
    LET paragraphs == Paragraphs(text)
    IN  [para_num \in 1..Len(paragraphs) |->
            DocumentSnippet(doc_id, paragraphs[para_num], page_num, para_num)]

(***************************************************************************)
(* Python operations on run-time typed values.                             *)
(***************************************************************************)
TypeName(v) ==
    CASE Tag(v) = "None" -> "NoneType"
      [] Tag(v) = "bool" -> "bool"
      [] Tag(v) = "int" -> "int"
      [] Tag(v) = "str" -> "str"
      [] Tag(v) = "list" -> "list"
      [] Tag(v) = "dict" -> "dict"

\* bool(v)
Truthy(v) ==
    CASE Tag(v) = "None" -> FALSE
      [] Tag(v) = "bool" -> Val(v)
      [] Tag(v) = "int" -> Val(v) # 0
      [] Tag(v) = "str" -> Val(v) # ""
      [] Tag(v) = "list" -> Val(v) # <<>>
      [] Tag(v) = "dict" -> DOMAIN Val(v) # {}

\* d.get(key, default) on a dict d
DictGet(d, key, default) ==
    IF key \in DOMAIN Val(d) THEN Val(d)[key] ELSE default

\* v.get(key, default) on any value v: only a dict has the method
PyGet(v, key, default) ==
    IF Tag(v) = "dict"
    THEN Ok(DictGet(v, key, default))
    ELSE Raise("AttributeError", "'" \o TypeName(v) \o "' object has no attribute 'get'")

\* key in v, for a str key
PyIn(key, v) ==
    CASE Tag(v) = "dict" -> Ok(key \in DOMAIN Val(v))
      [] Tag(v) = "str" -> Ok(Contains(Val(v), key))
      [] Tag(v) = "list" -> Ok(\E i \in 1..Len(Val(v)) : Val(v)[i] = PyStr(key))
      [] OTHER -> Raise("TypeError", "argument of type '" \o TypeName(v) \o "' is not iterable")

\* the keys of a dict, as str values, in one fixed order
RECURSIVE KeysOf(_)
KeysOf(keys) ==
    IF keys = {} THEN <<>>
    ELSE LET k == CHOOSE x \in keys : TRUE
         IN  <<PyStr(k)>> \o KeysOf(keys \ {k})

\* iter(v): the elements a for loop over v visits
PyIter(v) ==
    CASE Tag(v) = "list" -> Ok(Val(v))
      [] Tag(v) = "str" -> Ok([i \in 1..Len(Val(v)) |-> PyStr(CharAt(Val(v), i))])
      [] Tag(v) = "dict" -> Ok(KeysOf(DOMAIN Val(v)))
      [] OTHER -> Raise("TypeError", "'" \o TypeName(v) \o "' object is not iterable")

(***************************************************************************)
(* The text-generation service, as seen by the caller of                   *)
(* groq_client.chat.completions.create: the call raises, or returns a      *)
(* completion whose message content is None, <<"None">>, a text that is    *)
(* the JSON serialisation of a value v, <<"json", v>>, or a text that is   *)
(* not JSON, <<"notjson", text>>.                                          *)
(***************************************************************************)
JsonText(v) == <<"json", v>>
NotJsonText(s) == <<"notjson", s>>

\* content.strip(): a str method; stripping the text of a JSON value leaves that value
ContentStrip(content) ==
    IF Tag(content) = "None"
    THEN Raise("AttributeError", "'NoneType' object has no attribute 'strip'")
    ELSE Ok(content)

\* json.loads(content)
json_loads(content) ==
    CASE Tag(content) = "json" -> Ok(content[2])
      [] Tag(content) = "notjson" ->
            Raise("JSONDecodeError", "Expecting value: line 1 column 1 (char 0)")
      [] OTHER ->
            Raise("TypeError", "the JSON object must be str, bytes or bytearray, not NoneType")

(***************************************************************************)
(* core/utils.py: DocumentAnswer and Theme, with pydantic's validation of  *)
(* the values the code passes in.  Only values that every pydantic release *)
(* treats alike are drawn as inputs: a str for a str field, an int or None *)
(* for an Optional[int] field, a list of str for List[str] are accepted;   *)
(* None for a str field, a non-numeric str for an int field and a str for  *)
(* a list field are rejected.                                              *)
(***************************************************************************)
DefaultExtractedAnswer == "No relevant information found in this document."

IsOptionalInt(v) == Tag(v) \in {"int", "None"}

IsListOfStr(v) ==
    /\ Tag(v) = "list"
    /\ \A i \in 1..Len(Val(v)) : Tag(Val(v)[i]) = "str"

DocumentAnswer(doc_id, extracted_answer, source_page, source_paragraph) ==
    IF /\ Tag(extracted_answer) = "str"
       /\ IsOptionalInt(source_page)
       /\ IsOptionalInt(source_paragraph)
    THEN Ok([doc_id |-> doc_id,
             extracted_answer |-> Val(extracted_answer),
             source_page |-> source_page,
             source_paragraph |-> source_paragraph])
    ELSE Raise("ValidationError", "1 validation error for DocumentAnswer")

\* DocumentAnswer(doc_id=doc_id)
DefaultDocumentAnswer(doc_id) ==
    DocumentAnswer(doc_id, PyStr(DefaultExtractedAnswer), PyNone, PyNone)

\* Theme(theme_title=..., summary=..., supporting_docs=...)
Theme(theme_title, summary, supporting_docs) ==
    IF Tag(theme_title) = "str" /\ Tag(summary) = "str" /\ IsListOfStr(supporting_docs)
    THEN Ok([theme_title |-> Val(theme_title),
             summary |-> Val(summary),
             supporting_docs |-> [i \in 1..Len(Val(supporting_docs)) |->
                                     Val(Val(supporting_docs)[i])]])
    ELSE Raise("ValidationError", "1 validation error for Theme")

\* Theme(**theme_data): only a mapping can be unpacked; keys that are no field are ignored
ThemeFromKwargs(theme_data) ==
    IF Tag(theme_data) # "dict"
    THEN Raise("TypeError", "argument after ** must be a mapping, not " \o TypeName(theme_data))
    ELSE IF ~({"theme_title", "summary", "supporting_docs"} \subseteq DOMAIN Val(theme_data))
    THEN Raise("ValidationError", "field required")
    ELSE Theme(Val(theme_data)["theme_title"], Val(theme_data)["summary"],
               Val(theme_data)["supporting_docs"])

(***************************************************************************)
(* core/generation.py: get_answer_from_document.  gen is what the one      *)
(* generation call does when it is made.  The result is what the function  *)
(* returns or raises, with the number of generation calls it made.         *)
(***************************************************************************)
ParseFailureAnswer == "Error: Failed to parse model output."
MissingAnswerText == "Could not extract answer from JSON."
GroqErrorPrefix == "Error processing this document: "

\* lines 64-65 without the relevance gate: the answer is built whatever is_relevant says
ExtractFromContentUngated(content, doc_id) ==
    LET stripped == ContentStrip(content)
        data == IF IsOk(stripped) THEN json_loads(stripped[2]) ELSE stripped
        relevant == IF IsOk(data) THEN PyGet(data[2], "is_relevant", PyNone) ELSE data
    IN  IF IsRaise(relevant) THEN relevant
        ELSE DocumentAnswer(doc_id,
                            DictGet(data[2], "answer", PyStr(MissingAnswerText)),
                            DictGet(data[2], "source_page", PyNone),
                            DictGet(data[2], "source_paragraph", PyNone))

\* lines 64-74: the statements of the try block after the generation call returned content
ExtractFromContent(content, doc_id) ==
    LET stripped == ContentStrip(content)
        data == IF IsOk(stripped) THEN json_loads(stripped[2]) ELSE stripped
        relevant == IF IsOk(data) THEN PyGet(data[2], "is_relevant", PyNone) ELSE data
    IN  IF IsRaise(relevant) THEN relevant
        ELSE IF ~Truthy(relevant[2]) THEN DefaultDocumentAnswer(doc_id)
        ELSE DocumentAnswer(doc_id,
                            DictGet(data[2], "answer", PyStr(MissingAnswerText)),
                            DictGet(data[2], "source_page", PyNone),
                            DictGet(data[2], "source_paragraph", PyNone))

\* lines 75-78: the handler of (json.JSONDecodeError, KeyError); its second print reads
\* res, which is bound only if the generation call returned
JsonErrorHandler(gen, doc_id) ==
    IF IsRaise(gen)
    THEN Raise("UnboundLocalError",
               "cannot access local variable 'res' where it is not associated with a value")
    ELSE DocumentAnswer(doc_id, PyStr(ParseFailureAnswer), PyNone, PyNone)

\* lines 79-81: the handler of Exception
GroqErrorHandler(exc, doc_id) ==
    DocumentAnswer(doc_id, PyStr(GroqErrorPrefix \o exc[3]), PyNone, PyNone)

get_answer_from_document(query, snippets, doc_id, gen) ==
    IF snippets = <<>>
    THEN [out |-> DefaultDocumentAnswer(doc_id), gen_calls |-> 0]
    ELSE LET tried == IF IsRaise(gen) THEN gen ELSE ExtractFromContent(gen[2], doc_id)
             out == IF IsOk(tried) THEN tried
                    ELSE IF tried[2] \in {"JSONDecodeError", "KeyError"}
                         THEN JsonErrorHandler(gen, doc_id)
                         ELSE GroqErrorHandler(tried, doc_id)
         IN  [out |-> out, gen_calls |-> 1]

(***************************************************************************)
(* core/generation.py: synthesize_themes.                                  *)
(***************************************************************************)
\* line 85: the filter on the answer text
IsRelevantAnswer(a) ==
    /\ ~Contains(a.extracted_answer, "No relevant")
    /\ ~Contains(a.extracted_answer, "Error")

\* line 122: all(key in theme_data for key in [...]), evaluated key by key
AllKeysIn(theme_data) ==
    LET first == PyIn("theme_title", theme_data)
    IN  IF IsRaise(first) THEN first
        ELSE Ok(/\ first[2]
                /\ PyIn("summary", theme_data)[2]
                /\ PyIn("supporting_docs", theme_data)[2])

\* lines 120-129: the loop over raw_themes; an exception of line 122 leaves the loop
RECURSIVE ValidateThemes(_)
ValidateThemes(raw_themes) ==
    IF raw_themes = <<>> THEN Ok(<<>>)
    ELSE LET theme_data == Head(raw_themes)
             has == AllKeysIn(theme_data)
             rest == ValidateThemes(Tail(raw_themes))
         IN  IF IsRaise(has) THEN has
             ELSE IF IsRaise(rest) THEN rest
             ELSE LET built == IF has[2] THEN ThemeFromKwargs(theme_data)
                                         ELSE Raise("skipped", "missing fields")
                  IN  IF IsOk(built) THEN Ok(<<built[2]>> \o rest[2]) ELSE rest

\* lines 113-129: the statements of the try block after the generation call returned content
ThemesFromContent(content) ==
    LET data == json_loads(content)
        raw_themes == IF IsOk(data) THEN PyGet(data[2], "themes", PyList(<<>>)) ELSE data
        elements == IF IsOk(raw_themes) THEN PyIter(raw_themes[2]) ELSE raw_themes
    IN  IF IsRaise(elements) THEN elements ELSE ValidateThemes(elements[2])

\* the handler without its return: the exception leaves the function
SynthesisErrorHandlerReraise(exc) == exc

\* lines 131-134: the handler of Exception
SynthesisErrorHandler(exc) ==
    LET sentinel == Theme(PyStr("API or Parsing Error"),
                          PyStr("Could not synthesize themes: " \o exc[3]),
                          PyList(<<>>))
    IN  IF IsOk(sentinel) THEN Ok(<<sentinel[2]>>) ELSE sentinel

synthesize_themes(query, answers, gen) ==
    LET relevant_answers == SelectSeq(answers, IsRelevantAnswer)
    IN  IF relevant_answers = <<>>
        THEN [out |-> Ok(<<>>), gen_calls |-> 0]
        ELSE LET tried == IF IsRaise(gen) THEN gen ELSE ThemesFromContent(gen[2])
             IN  [out |-> IF IsOk(tried) THEN tried ELSE SynthesisErrorHandler(tried),
                  gen_calls |-> 1]

(***************************************************************************)
(* core/utils.py: generate_doc_id.  The MD5 digests are those of the file  *)
(* names the model uploads.                                                *)
(***************************************************************************)
UpperCase == "ABCDEFGHIJKLMNOPQRSTUVWXYZ"
LowerCase == "abcdefghijklmnopqrstuvwxyz"

LowerChar(c) ==
    IF \E i \in 1..Len(UpperCase) : CharAt(UpperCase, i) = c
    THEN CharAt(LowerCase, CHOOSE i \in 1..Len(UpperCase) : CharAt(UpperCase, i) = c)
    ELSE c

\* s.lower()
RECURSIVE Lower(_)
Lower(s) ==
    IF s = "" THEN "" ELSE LowerChar(CharAt(s, 1)) \o Lower(SubSeq(s, 2, Len(s)))

\* hashlib.md5(file_name.encode()).hexdigest()[:10]
generate_doc_id(file_name) ==
    CASE file_name = "a.txt" -> "a5e54d1fd7"
      [] file_name = "b.pdf" -> "6f48c255b9"
      [] file_name = "c.png" -> "8254a4657f"

(***************************************************************************)
(* core/document_processor.py: _process_pdf and process_uploaded_file.     *)
(* An uploaded file is its name and what each library makes of its bytes:  *)
(* text (read().decode('utf-8', errors='ignore')), pdf (fitz.open: the     *)
(* pages, each with its extractable text and the outcome of OCR on its     *)
(* rasterized image, or an exception) and ocr (Image.open and              *)
(* pytesseract.image_to_string: the text, or an exception).                *)
(***************************************************************************)
TEXT_LENGTH_THRESHOLD == 100

\* the text of one page if the OCR fallback were never taken
PageTextNoFallback(page) == Strip(page.text)

\* lines 37-53: the text of one page
PageText(page) ==
    LET text == Strip(page.text)
    IN  IF Len(text) < TEXT_LENGTH_THRESHOLD
        THEN (IF IsOk(page.ocr) THEN Strip(page.ocr[2]) ELSE "")
        ELSE text

\* lines 35-58: the loop over the pages from page_num on
RECURSIVE PdfPagesFrom(_, _, _)
PdfPagesFrom(pages, page_num, doc_id) ==
    IF page_num > Len(pages) THEN <<>>
    ELSE LET text == PageText(pages[page_num])
             page_snippets == IF text # ""
                              THEN _chunk_text_into_snippets(doc_id, page_num, text)
                              ELSE <<>>
         IN  page_snippets \o PdfPagesFrom(pages, page_num + 1, doc_id)

_process_pdf(file_stream, doc_id) ==
    IF IsRaise(file_stream.pdf) THEN file_stream.pdf
    ELSE Ok(PdfPagesFrom(file_stream.pdf[2], 1, doc_id))

process_uploaded_file(uploaded_file) ==
    LET file_name == Lower(uploaded_file.name)
        doc_id == generate_doc_id(file_name)
    IN  IF EndsWith(file_name, ".pdf")
        THEN _process_pdf(uploaded_file, doc_id)
        ELSE IF EndsWith(file_name, ".txt") \/ EndsWith(file_name, ".md")
        THEN Ok(_chunk_text_into_snippets(doc_id, 1, uploaded_file.text))
        ELSE IF \/ EndsWith(file_name, ".png")
                \/ EndsWith(file_name, ".jpg")
                \/ EndsWith(file_name, "jpeg")
        THEN (IF IsRaise(uploaded_file.ocr) THEN uploaded_file.ocr
              ELSE Ok(_chunk_text_into_snippets(doc_id, 1, uploaded_file.ocr[2])))
        ELSE Ok(<<>>)

(***************************************************************************)
(* core/retrieval.py: VectorStore over the chromadb client.  The client    *)
(* holds at most one collection under collection_name: uuid is its id (0:  *)
(* none), items its entries in insertion order.  The store's handle is the *)
(* id of the collection it was given; a call through a handle whose        *)
(* collection is gone raises.  on_duplicate is what collection.add does    *)
(* with an id the collection already holds: chromadb releases either raise *)
(* or skip the entry.                                                      *)
(***************************************************************************)
DuplicatePolicies == {"ignore", "raise"}

NewClient(policy) == [uuid |-> 1, items |-> <<>>, on_duplicate |-> policy]

n_results == 5

IsStale(cl, handle) == cl.uuid # handle \/ cl.uuid = 0

StaleError == Raise("InvalidCollectionException", "Collection does not exist.")

\* line 36
StorageId(s) == s.doc_id \o "_p" \o ToString(s.page) \o "_para" \o ToString(s.paragraph)

StoredIds(cl) == {cl.items[i].id : i \in 1..Len(cl.items)}

\* lines 36-38: the entry of one snippet
Entry(s) ==
    [id |-> StorageId(s),
     document |-> s.content,
     metadata |-> [doc_id |-> s.doc_id, page |-> s.page, paragraph |-> s.paragraph]]

\* add_documents: the outcome and the client after it
add_documents(cl, handle, snippets) ==
    IF snippets = <<>> THEN [out |-> Ok(PyNone), client |-> cl]
    ELSE LET entries == [i \in 1..Len(snippets) |-> Entry(snippets[i])]
             fresh == SelectSeq(entries, LAMBDA e : e.id \notin StoredIds(cl))
         IN  IF IsStale(cl, handle) THEN [out |-> StaleError, client |-> cl]
             ELSE IF \E i, j \in 1..Len(entries) : i # j /\ entries[i].id = entries[j].id
             THEN [out |-> Raise("DuplicateIDError", "Expected IDs to be unique"),
                   client |-> cl]
             ELSE IF Len(fresh) < Len(entries) /\ cl.on_duplicate = "raise"
             THEN [out |-> Raise("IDAlreadyExistsError", "ID already exists"), client |-> cl]
             ELSE [out |-> Ok(PyNone), client |-> [cl EXCEPT !.items = @ \o fresh]]

\* the first n elements of q
Take(q, n) == SubSeq(q, 1, IF Len(q) < n THEN Len(q) ELSE n)

\* search_in_document: the entries of doc_id, at most n_results of them; insertion order
\* stands for the order by similarity
search_in_document(cl, handle, query, doc_id) ==
    IF IsStale(cl, handle) THEN StaleError
    ELSE LET hits == SelectSeq(cl.items, LAMBDA e : e.metadata.doc_id = doc_id)
             top == Take(hits, n_results)
         IN  Ok([i \in 1..Len(top) |->
                    [content |-> top[i].document, metadata |-> top[i].metadata]])

\* get_all_doc_ids: the distinct doc_ids, as a set
get_all_doc_ids(cl, handle) ==
    IF IsStale(cl, handle) THEN StaleError
    ELSE Ok({cl.items[i].metadata.doc_id : i \in 1..Len(cl.items)})

\* a collection id no handle holds
FreshUuid(handle) == CHOOSE u \in 1..2 : u # handle

\* clear_database: the client and the handle after it.  delete_fails: delete_collection
\* raises although the collection exists; create_fails: building the embedding function
\* or get_or_create_collection raises.  Every exception ends in the handler of line 94.
clear_database(cl, handle, delete_fails, create_fails) ==
    IF cl.uuid = 0 \/ delete_fails
    THEN [client |-> cl, collection |-> handle]
    ELSE LET deleted == [cl EXCEPT !.uuid = 0, !.items = <<>>]
         IN  IF create_fails
             THEN [client |-> deleted, collection |-> handle]
             ELSE LET u == FreshUuid(handle)
                  IN  [client |-> [deleted EXCEPT !.uuid = u], collection |-> u]

(***************************************************************************)
(* Texts: every string over Alphabet of length at most MaxTextLen.         *)
(***************************************************************************)
Alphabet == {"a", " ", "\n"}

RECURSIVE TextsUpTo(_)
TextsUpTo(n) ==
    IF n = 0 THEN {""}
    ELSE LET shorter == TextsUpTo(n - 1)
         IN  shorter \cup {t \o c : t \in shorter, c \in Alphabet}

ChunkDocIds == {"d1", "d2"}
ChunkPages == {1, 2}

(***************************************************************************)
(* The session before anything was uploaded.                               *)
(***************************************************************************)
NoResult == PyNone

SessionInit ==
    /\ client \in {NewClient(p) : p \in DuplicatePolicies}
    /\ collection = client.uuid
    /\ processed_doc_ids = {}
    /\ results = NoResult
    /\ themes = NoResult
    /\ handed = {}
    /\ handed_twice = {}
    /\ last = [op |-> "start"]

(***************************************************************************)
(* SpecChunk: _chunk_text_into_snippets applied to one input.              *)
(***************************************************************************)
InitChunk ==
    /\ SessionInit
    /\ \E d \in ChunkDocIds, p \in ChunkPages, t \in TextsUpTo(MaxTextLen) :
          call = [fn |-> "_chunk_text_into_snippets", doc_id |-> d, page_num |-> p, text |-> t]
    /\ ret = NotCalled

CallChunk ==
    /\ call.fn = "_chunk_text_into_snippets"
    /\ ret = NotCalled
    /\ ret' = [out |-> Ok(_chunk_text_into_snippets(call.doc_id, call.page_num, call.text)),
               gen_calls |-> 0]
    /\ UNCHANGED <<call, session_vars>>

NextChunk == CallChunk

SpecChunk == InitChunk /\ [][NextChunk]_vars

(***************************************************************************)
(* Inputs of get_answer_from_document: the snippets search_in_document     *)
(* returned and what the generation call does.                             *)
(***************************************************************************)
RECURSIVE SeqsUpTo(_, _)
SeqsUpTo(S, n) ==
    IF n = 0 THEN {<<>>}
    ELSE LET shorter == SeqsUpTo(S, n - 1)
         IN  shorter \cup {Append(q, x) : q \in {r \in shorter : Len(r) = n - 1}, x \in S}

Absent == <<"absent">>

\* the JSON object with the given members, those that are Absent left out
JsonObject(members) ==
    PyDict([k \in {m \in DOMAIN members : members[m] # Absent} |-> members[k]])

SearchHit(doc_id, page) ==
    [content |-> "a", metadata |-> [doc_id |-> doc_id, page |-> page, paragraph |-> 1]]

SnippetListsOf(doc_id) ==
    SeqsUpTo({SearchHit(doc_id, p) : p \in 1..MaxPage}, MaxSnippets)

RelevantOptions == {Absent, PyBool(TRUE), PyBool(FALSE)}
AnswerOptions == {Absent, PyNone, PyStr("Revenue grew.")}
PageOptions == {Absent, PyNone, PyStr("two")} \cup {PyInt(n) : n \in 1..(MaxPage + 1)}
ParagraphOptions == {Absent, PyInt(1)}

ExtractionObjects ==
    {JsonObject([is_relevant |-> r, answer |-> a, source_page |-> p, source_paragraph |-> g]) :
        r \in RelevantOptions, a \in AnswerOptions, p \in PageOptions, g \in ParagraphOptions}

GenerationFailures ==
    {Raise("APIConnectionError", "Connection error."),
     Raise("JSONDecodeError", "Expecting value: line 1 column 1 (char 0)"),
     Raise("KeyError", "'choices'")}

ExtractionGens ==
    GenerationFailures
    \cup {Ok(NotJsonText("Sure, here is the answer")),
          Ok(JsonText(PyList(<<PyInt(1)>>))), Ok(JsonText(PyStr("none"))),
          Ok(JsonText(PyNone))}
    \cup {Ok(JsonText(o)) : o \in ExtractionObjects}

(***************************************************************************)
(* SpecExtract: get_answer_from_document applied to one input.             *)
(***************************************************************************)
InitExtract ==
    /\ SessionInit
    /\ \E d \in ChunkDocIds :
       \E sn \in SnippetListsOf(d), g \in ExtractionGens :
          call = [fn |-> "get_answer_from_document", query |-> "q", snippets |-> sn,
                  doc_id |-> d, gen |-> g]
    /\ ret = NotCalled

CallExtract ==
    /\ call.fn = "get_answer_from_document"
    /\ ret = NotCalled
    /\ ret' = get_answer_from_document(call.query, call.snippets, call.doc_id, call.gen)
    /\ UNCHANGED <<call, session_vars>>

NextExtract == CallExtract

SpecExtract == InitExtract /\ [][NextExtract]_vars

Returned == ret.out[1] # "not called"

\* the generation call returned a text that is the JSON serialisation of an object
GenReturnedObject(g) ==
    /\ IsOk(g)
    /\ Tag(g[2]) = "json"
    /\ Tag(g[2][2]) = "dict"

\* C3: with snippets given and a response that parses to an object whose
\* is_relevant is false or absent, the function returns the default answer:
\* the fixed sentinel text and null source_page and source_paragraph, whatever
\* the answer, source_page and source_paragraph members are.
C3_NotRelevantGivesDefault ==
    (/\ call.fn = "get_answer_from_document"
     /\ Returned
     /\ call.snippets # <<>>
     /\ GenReturnedObject(call.gen)
     /\ LET members == call.gen[2][2][2]
        IN  \/ "is_relevant" \notin DOMAIN members
            \/ members["is_relevant"] = PyBool(FALSE))
    => ret.out = Ok([doc_id |-> call.doc_id,
                     extracted_answer |-> "No relevant information found in this document.",
                     source_page |-> PyNone,
                     source_paragraph |-> PyNone])

\* a response with is_relevant false that also carries an answer and a page was
\* turned into the default answer
C3_Witness ==
    /\ call.fn = "get_answer_from_document"
    /\ Returned
    /\ call.snippets # <<>>
    /\ GenReturnedObject(call.gen)
    /\ call.gen[2][2][2] = [is_relevant |-> PyBool(FALSE), answer |-> PyStr("Revenue grew."),
                            source_page |-> PyInt(1), source_paragraph |-> PyInt(1)]
    /\ IsOk(ret.out)
    /\ ret.out[2].source_page = PyNone

\* the generation call returned, and its content is no JSON text or is JSON
\* that is not an object
GenReturnedUnstructured(g) ==
    /\ IsOk(g)
    /\ \/ Tag(g[2]) = "notjson"
       \/ Tag(g[2]) = "json" /\ Tag(g[2][2]) # "dict"

StartsWith(s, prefix) ==
    Len(prefix) <= Len(s) /\ SubSeq(s, 1, Len(prefix)) = prefix

\* C4: when the generation call returned but its response cannot be turned
\* into the expected structure, the answer is the parse-failure answer for the
\* same doc_id with null citation fields; the answer that embeds an error
\* description is returned only when the generation call itself failed.
C4_ParseFailureAnswer ==
    (call.fn = "get_answer_from_document" /\ Returned /\ call.snippets # <<>>) =>
        /\ GenReturnedUnstructured(call.gen) =>
              ret.out = Ok([doc_id |-> call.doc_id,
                            extracted_answer |-> "Error: Failed to parse model output.",
                            source_page |-> PyNone,
                            source_paragraph |-> PyNone])
        /\ (IsOk(ret.out)
            /\ StartsWith(ret.out[2].extracted_answer, "Error processing this document: "))
              => IsRaise(call.gen)

\* C7: a returned DocumentAnswer whose source_page is not null names the page
\* of one of the snippets that were passed in.
C7_SourcePageAmongSnippets ==
    (/\ call.fn = "get_answer_from_document"
     /\ Returned
     /\ IsOk(ret.out)
     /\ ret.out[2].source_page # PyNone)
    => \E i \in 1..Len(call.snippets) :
          call.snippets[i].metadata.page = ret.out[2].source_page[2]

(***************************************************************************)
(* Inputs of synthesize_themes: answers that get_answer_from_document      *)
(* returns, each with the case that produced it, and what the generation   *)
(* call does.                                                              *)
(***************************************************************************)
AnswerCases ==
    {"no_snippets", "not_relevant", "not_json", "answer_absent", "generation_error", "found"}

\* the snippets and the generation outcome of each case
CaseSnippets(c, doc_id) ==
    IF c = "no_snippets" THEN <<>> ELSE <<SearchHit(doc_id, 1)>>

CaseGen(c) ==
    CASE c = "not_relevant" ->
            Ok(JsonText(JsonObject([is_relevant |-> PyBool(FALSE),
                                    answer |-> PyStr("Revenue grew.")])))
      [] c = "not_json" -> Ok(NotJsonText("Sure, here is the answer"))
      [] c = "answer_absent" -> Ok(JsonText(JsonObject([is_relevant |-> PyBool(TRUE)])))
      [] c = "generation_error" -> Raise("APIConnectionError", "Connection error.")
      [] OTHER ->
            Ok(JsonText(JsonObject([is_relevant |-> PyBool(TRUE),
                                    answer |-> PyStr("Revenue grew."),
                                    source_page |-> PyInt(1),
                                    source_paragraph |-> PyInt(1)])))

DocIdAt(i) == "d" \o ToString(i)

\* the answers of documents d1, d2, ... in the given cases
AnswersOf(cases) ==
    [i \in 1..Len(cases) |->
        get_answer_from_document("q", CaseSnippets(cases[i], DocIdAt(i)), DocIdAt(i),
                                 CaseGen(cases[i])).out[2]]

ThemeEntries ==
    {JsonObject([theme_title |-> PyStr("Growth"), summary |-> PyStr("Revenue grew."),
                 supporting_docs |-> PyList(<<PyStr("d1")>>)]),
     JsonObject([theme_title |-> PyStr("Risk"), summary |-> PyStr("Costs rose."),
                 supporting_docs |-> PyList(<<>>), confidence |-> PyInt(1)]),
     JsonObject([theme_title |-> PyStr("Growth"),
                 supporting_docs |-> PyList(<<PyStr("d1")>>)]),
     JsonObject([theme_title |-> PyStr("Growth"), summary |-> PyNone,
                 supporting_docs |-> PyList(<<PyStr("d1")>>)]),
     JsonObject([theme_title |-> PyStr("Growth"), summary |-> PyStr("Revenue grew."),
                 supporting_docs |-> PyStr("d1")]),
     PyStr("Growth"),
     PyList(<<PyStr("theme_title"), PyStr("summary"), PyStr("supporting_docs")>>),
     PyInt(5),
     PyNone}

SynthesisGens ==
    {Raise("APIConnectionError", "Connection error."),
     Ok(PyNone),
     Ok(NotJsonText("Sure, here are the themes")),
     Ok(JsonText(PyList(<<>>))),
     Ok(JsonText(JsonObject([summary |-> PyStr("none")]))),
     Ok(JsonText(JsonObject([themes |-> PyNone]))),
     Ok(JsonText(JsonObject([themes |-> PyInt(3)]))),
     Ok(JsonText(JsonObject([themes |-> PyStr("none")]))),
     Ok(JsonText(JsonObject([themes |-> JsonObject([theme_title |-> PyStr("Growth")])])))}
    \cup {Ok(JsonText(JsonObject([themes |-> PyList(entries)]))) :
            entries \in SeqsUpTo(ThemeEntries, MaxThemes)}

(***************************************************************************)
(* SpecSynth: synthesize_themes applied to one input.                      *)
(***************************************************************************)
InitSynth ==
    /\ SessionInit
    /\ \E cases \in SeqsUpTo(AnswerCases, MaxAnswers), g \in SynthesisGens :
          call = [fn |-> "synthesize_themes", query |-> "q", cases |-> cases,
                  answers |-> AnswersOf(cases), gen |-> g]
    /\ ret = NotCalled

CallSynth ==
    /\ call.fn = "synthesize_themes"
    /\ ret = NotCalled
    /\ ret' = synthesize_themes(call.query, call.answers, call.gen)
    /\ UNCHANGED <<call, session_vars>>

NextSynth == CallSynth

SpecSynth == InitSynth /\ [][NextSynth]_vars

\* the generation call returned a JSON object with a themes array
GenReturnedThemesArray(g) ==
    /\ GenReturnedObject(g)
    /\ "themes" \in DOMAIN g[2][2][2]
    /\ Tag(g[2][2][2]["themes"]) = "list"

\* an entry that is an object with the three keys, of the field types of Theme
IsWellFormedEntry(e) ==
    /\ Tag(e) = "dict"
    /\ {"theme_title", "summary", "supporting_docs"} \subseteq DOMAIN e[2]
    /\ Tag(e[2]["theme_title"]) = "str"
    /\ Tag(e[2]["summary"]) = "str"
    /\ Tag(e[2]["supporting_docs"]) = "list"
    /\ \A i \in 1..Len(e[2]["supporting_docs"][2]) : Tag(e[2]["supporting_docs"][2][i]) = "str"

ExpectedThemes(entries) ==
    LET good == SelectSeq(entries, IsWellFormedEntry)
    IN  [i \in 1..Len(good) |->
            [theme_title |-> good[i][2]["theme_title"][2],
             summary |-> good[i][2]["summary"][2],
             supporting_docs |-> [j \in 1..Len(good[i][2]["supporting_docs"][2]) |->
                                     good[i][2]["supporting_docs"][2][j][2]]]]

\* C1: when the generation call is made and returns a JSON object with a
\* themes array, the result is exactly the well-formed entries of the array, in
\* array order: every other entry is dropped alone.
C1_ValidEntriesKept ==
    (/\ call.fn = "synthesize_themes"
     /\ Returned
     /\ ret.gen_calls = 1
     /\ GenReturnedThemesArray(call.gen))
    => ret.out = Ok(ExpectedThemes(call.gen[2][2][2]["themes"][2]))

\* an answer in a non-found state: the default answer, a parse-failure answer
\* (the fixed message for an absent answer member included) or the
\* generation-error answer
NonFoundCases ==
    {"no_snippets", "not_relevant", "not_json", "answer_absent", "generation_error"}

\* C5: with no answer, or only answers in a non-found state, the result is the
\* empty sequence and no generation call is made.
C5_NothingToSynthesize ==
    (/\ call.fn = "synthesize_themes"
     /\ Returned
     /\ \A i \in 1..Len(call.cases) : call.cases[i] \in NonFoundCases)
    => ret.out = Ok(<<>>) /\ ret.gen_calls = 0

IsThemeRecord(t) ==
    /\ DOMAIN t = {"theme_title", "summary", "supporting_docs"}
    /\ t.theme_title \in STRING
    /\ t.summary \in STRING
    /\ \A j \in 1..Len(t.supporting_docs) : t.supporting_docs[j] \in STRING

\* C6: synthesize_themes never raises, it returns a sequence of Theme; when
\* the generation call is made and fails, it returns exactly one Theme whose
\* summary reports the failure and whose supporting_docs is empty.
C6_AlwaysThemes ==
    (call.fn = "synthesize_themes" /\ Returned) =>
        /\ IsOk(ret.out)
        /\ \A i \in 1..Len(ret.out[2]) : IsThemeRecord(ret.out[2][i])
        /\ (ret.gen_calls = 1 /\ IsRaise(call.gen)) =>
              /\ Len(ret.out[2]) = 1
              /\ Contains(ret.out[2][1].summary, call.gen[3])
              /\ ret.out[2][1].supporting_docs = <<>>

\* the generation call was made for a found answer and failed, and the one
\* sentinel Theme came back
C6_Witness ==
    /\ call.fn = "synthesize_themes"
    /\ Returned
    /\ ret.gen_calls = 1
    /\ IsRaise(call.gen)
    /\ IsOk(ret.out)
    /\ Len(ret.out[2]) = 1
    /\ ret.out[2][1].theme_title = "API or Parsing Error"

(***************************************************************************)
(* main.py: the session.  Uploads, and what the generation service does    *)
(* in a query round.                                                       *)
(***************************************************************************)
NotThatFormat == Raise("FileDataError", "cannot open the bytes in this format")

LongPageText ==
    "The quarterly report shows that revenue grew in every region during the year while costs stayed flat.\n\nRisks remain."

UploadPool ==
    {[name |-> "A.txt", text |-> "Para one.\n\nPara two.", pdf |-> NotThatFormat,
      ocr |-> NotThatFormat],
     [name |-> "a.txt", text |-> "Para one.", pdf |-> NotThatFormat, ocr |-> NotThatFormat],
     [name |-> "b.pdf", text |-> "",
      pdf |-> Ok(<<[text |-> LongPageText, ocr |-> Ok("")],
                   [text |-> " ", ocr |-> Ok("Scanned page.\n")]>>),
      ocr |-> NotThatFormat],
     [name |-> "B.PDF", text |-> "",
      pdf |-> Ok(<<[text |-> "", ocr |-> Raise("TesseractError", "OCR failed")]>>),
      ocr |-> NotThatFormat],
     [name |-> "C.png", text |-> "", pdf |-> NotThatFormat,
      ocr |-> Raise("TesseractNotFoundError", "tesseract is not installed")]}

\* what the two functions of a file give for each upload of the pool
DocIdOfUpload == [f \in UploadPool |-> generate_doc_id(Lower(f.name))]
SnippetsOfUpload == [f \in UploadPool |-> process_uploaded_file(f)]

SessionDocIds == {DocIdOfUpload[f] : f \in UploadPool}

SessionGens ==
    {Raise("APIConnectionError", "Connection error."),
     Raise("JSONDecodeError", "Expecting value: line 1 column 1 (char 0)"),
     CaseGen("found")}

SessionSynthesisGens ==
    {Raise("APIConnectionError", "Connection error."),
     Ok(JsonText(JsonObject([themes |-> PyList(<<
        JsonObject([theme_title |-> PyStr("Growth"), summary |-> PyStr("Revenue grew."),
                    supporting_docs |-> PyList(<<PyStr("a5e54d1fd7")>>)])>>)])))}

\* the orders in which list(a set) may give the elements of S
Orders(S) ==
    {q \in SeqsUpTo(S, Cardinality(S)) :
        Len(q) = Cardinality(S) /\ \A i, j \in 1..Len(q) : i # j => q[i] # q[j]}

(***************************************************************************)
(* main.py, lines 41-73: Process and Ingest Documents.                     *)
(***************************************************************************)
\* lines 44-51: the files whose doc_id is not yet in processed_doc_ids, all tested
\* before any of them is processed
NewFilesToProcess(uploaded_files, processed) ==
    LET tagged == [i \in 1..Len(uploaded_files) |->
                      [file |-> uploaded_files[i],
                       doc_id |-> DocIdOfUpload[uploaded_files[i]]]]
    IN  SelectSeq(tagged, LAMBDA t : t.doc_id \notin processed)

\* lines 56-69: the loop over new_files_to_process; st is the session as the loop goes
RECURSIVE IngestLoop(_, _)
IngestLoop(new_files, st) ==
    IF new_files = <<>> THEN st
    ELSE LET file == Head(new_files).file
             doc_id == Head(new_files).doc_id
             snippets == SnippetsOfUpload[file]
         IN  IF IsRaise(snippets) \/ snippets[2] = <<>>
             THEN IngestLoop(Tail(new_files), st)
             ELSE LET added == add_documents(st.client, st.collection, snippets[2])
                      ids == {StorageId(snippets[2][i]) : i \in 1..Len(snippets[2])}
                      done == IsOk(added.out)
                  IN  IngestLoop(Tail(new_files),
                         [client |-> added.client,
                          collection |-> st.collection,
                          processed |-> IF done THEN st.processed \cup {doc_id}
                                                ELSE st.processed,
                          handed |-> st.handed \cup ids,
                          handed_twice |-> st.handed_twice \cup (ids \cap st.handed)])

ProcessAndIngest ==
    \E uploaded_files \in SeqsUpTo(UploadPool, MaxBatch) :
        LET st == IngestLoop(NewFilesToProcess(uploaded_files, processed_doc_ids),
                             [client |-> client, collection |-> collection,
                              processed |-> processed_doc_ids, handed |-> handed,
                              handed_twice |-> handed_twice])
        IN  /\ client' = st.client
            /\ processed_doc_ids' = st.processed
            /\ handed' = st.handed
            /\ handed_twice' = st.handed_twice
            /\ last' = [op |-> "ingest"]
            /\ UNCHANGED <<collection, results, themes, call, ret>>

(***************************************************************************)
(* main.py, lines 84-89: Clear Knowledge Base.                             *)
(***************************************************************************)
ClearKnowledgeBase ==
    \E delete_fails \in BOOLEAN, create_fails \in BOOLEAN :
        LET cleared == clear_database(client, collection, delete_fails, create_fails)
        IN  /\ client' = cleared.client
            /\ collection' = cleared.collection
            /\ processed_doc_ids' = {}
            /\ results' = NoResult
            /\ themes' = NoResult
            /\ handed' = {}
            /\ handed_twice' = {}
            /\ last' = [op |-> "clear"]
            /\ UNCHANGED <<call, ret>>

(***************************************************************************)
(* main.py, lines 99-119: Get Answers & Themes.                            *)
(***************************************************************************)
\* lines 108-114: the loop over all_doc_ids; an exception leaves the handler
RECURSIVE AnswerLoop(_, _, _, _, _)
AnswerLoop(cl, handle, query, doc_ids, gens) ==
    IF doc_ids = <<>> THEN Ok(<<>>)
    ELSE LET doc_id == Head(doc_ids)
             snippets == search_in_document(cl, handle, query, doc_id)
             answer_obj == IF IsRaise(snippets) THEN snippets
                           ELSE get_answer_from_document(query, snippets[2], doc_id,
                                                         gens[doc_id]).out
             rest == AnswerLoop(cl, handle, query, Tail(doc_ids), gens)
         IN  IF IsRaise(answer_obj) THEN answer_obj
             ELSE IF IsRaise(rest) THEN rest
             ELSE Ok(<<answer_obj[2]>> \o rest[2])

GetAnswersAndThemes ==
    /\ processed_doc_ids # {}
    /\ \E query \in {"q"}, all_doc_ids \in Orders(processed_doc_ids),
          gens \in [processed_doc_ids -> SessionGens], synthesis_gen \in SessionSynthesisGens :
          LET answers == AnswerLoop(client, collection, query, all_doc_ids, gens)
              synthesized == IF IsOk(answers)
                             THEN synthesize_themes(query, answers[2], synthesis_gen).out
                             ELSE answers
          IN  /\ results' = IF IsOk(answers) THEN PyList(answers[2]) ELSE NoResult
              /\ themes' = IF IsOk(synthesized) THEN PyList(synthesized[2]) ELSE NoResult
              /\ last' = [op |-> "query", all_doc_ids |-> all_doc_ids,
                          raised |-> IsRaise(synthesized)]
    /\ UNCHANGED <<client, collection, processed_doc_ids, handed, handed_twice, call, ret>>

(***************************************************************************)
(* Spec: one session, from a fresh process.                                *)
(***************************************************************************)
Init ==
    /\ SessionInit
    /\ call = [fn |-> "none"]
    /\ ret = NotCalled

Next ==
    \/ ProcessAndIngest
    \/ ClearKnowledgeBase
    \/ GetAnswersAndThemes

Spec == Init /\ [][Next]_vars

\* C2: a query round over the known document ids d1..dn leaves exactly n
\* DocumentAnswers, the i-th for di, whatever the generation calls of the round
\* did: no document's failure keeps another document from its answer.
C2_OneAnswerPerDocument ==
    last.op = "query" =>
        /\ Tag(results) = "list"
        /\ Len(results[2]) = Len(last.all_doc_ids)
        /\ \A i \in 1..Len(results[2]) : results[2][i].doc_id = last.all_doc_ids[i]

\* C8: no storage id is handed to the vector store twice between two resets
\* (two files whose names are equal ignoring case have the same doc_id, hence
\* share the storage id of their first paragraph: ingesting both hands it twice).
C8_StorageIdsUnique == handed_twice = {}

\* C10: right after a reset the store lists no document, finds nothing for any
\* doc_id, and an add succeeds and makes its snippets retrievable.
C10_ResetLeavesUsableStore ==
    last.op = "clear" =>
        LET snippets == _chunk_text_into_snippets("a5e54d1fd7", 1, "Para one.")
            added == add_documents(client, collection, snippets)
        IN  /\ get_all_doc_ids(client, collection) = Ok({})
            /\ \A d \in SessionDocIds :
                  search_in_document(client, collection, "q", d) = Ok(<<>>)
            /\ IsOk(added.out)
            /\ search_in_document(added.client, collection, "q", "a5e54d1fd7")
                  = Ok(<<[content |-> "Para one.",
                          metadata |-> [doc_id |-> "a5e54d1fd7", page |-> 1,
                                        paragraph |-> 1]]>>)

\* C12: in every state of a session the processed doc_ids are exactly the
\* distinct doc_ids the vector store lists (get_all_doc_ids), and a doc_id is
\* processed only if snippets of its file were handed to the store.
C12_ProcessedMatchesStore ==
    /\ get_all_doc_ids(client, collection) = Ok(processed_doc_ids)
    /\ \A d \in processed_doc_ids : \E id \in handed : StartsWith(id, d \o "_p")

(***************************************************************************)
(* C9.  The paragraphs of a text, by the stated rule: cut the text at      *)
(* every maximal run of two or more consecutive newlines, trim each piece, *)
(* drop the pieces that are empty after trimming.                          *)
(***************************************************************************)
\* the maximal run of newlines that starts at i has this length
RECURSIVE NewlineRun(_, _)
NewlineRun(s, i) ==
    IF i <= Len(s) /\ CharAt(s, i) = "\n" THEN 1 + NewlineRun(s, i + 1) ELSE 0

\* pieces of s from position i on, cur being the piece collected so far
RECURSIVE RunPieces(_, _, _)
RunPieces(s, i, cur) ==
    IF i > Len(s) THEN <<cur>>
    ELSE LET r == NewlineRun(s, i)
         IN  IF r >= 2
             THEN <<cur>> \o RunPieces(s, i + r, "")
             ELSE RunPieces(s, i + 1, cur \o CharAt(s, i))

ParagraphsByRule(text) ==
    LET pieces == RunPieces(text, 1, "")
        trimmed == [i \in 1..Len(pieces) |-> Strip(pieces[i])]
    IN  SelectSeq(trimmed, LAMBDA p : p # "")

IsBlank(s) == Strip(s) = ""

\* C9: for every text, the chunker returns one snippet per non-blank paragraph
\* of the rule above, in split order, numbered 1..k, none with empty or
\* whitespace-only content, all with the given doc_id and page; a blank or
\* whitespace-only text yields no snippet.
C9_ChunkerParagraphs ==
    (call.fn = "_chunk_text_into_snippets" /\ ret # NotCalled) =>
        LET out == ret.out[2]
            expected == ParagraphsByRule(call.text)
        IN  /\ IsOk(ret.out)
            /\ Len(out) = Len(expected)
            /\ \A i \in 1..Len(out) :
                  /\ out[i].content = expected[i]
                  /\ ~IsBlank(out[i].content)
                  /\ out[i].paragraph = i
                  /\ out[i].doc_id = call.doc_id
                  /\ out[i].page = call.page_num
            /\ (IsBlank(call.text) => out = <<>>)

\* a text with a run of three newlines and a whitespace-only piece was chunked
\* into two numbered snippets
C9_Witness ==
    /\ call.fn = "_chunk_text_into_snippets"
    /\ ret # NotCalled
    /\ call.text = "a\n\n\na"
    /\ Len(ret.out[2]) = 2
    /\ ret.out[2][2].paragraph = 2

(***************************************************************************)
(* SpecPdf: _process_pdf applied to one PDF.  A page is what get_text()    *)
(* returns for it and the outcome of OCR on its rasterized image.          *)
(***************************************************************************)
\* get_text() of a short page: 98 characters and the newlines that end them
ShortPaddedText ==
    "Page 7 of 12. Confidential draft, not for circulation outside the finance committee meeting today.\n\n"

\* 100 characters, none of them whitespace at either end
ThresholdText ==
    "Costs stayed flat in every region during the year, and the board expects the same again for next yr."

PdfPageTexts == {LongPageText, ShortPaddedText, ThresholdText, " "}

PdfOcrOutcomes ==
    {Ok("Scanned page.\n"), Ok("First.\n\nSecond.\n"), Ok(" \n"),
     Raise("TesseractError", "OCR failed")}

PdfPages == [text : PdfPageTexts, ocr : PdfOcrOutcomes]

PdfStreams == {Ok(pages) : pages \in SeqsUpTo(PdfPages, MaxPdfPages)} \cup {NotThatFormat}

InitPdf ==
    /\ SessionInit
    /\ \E stream \in PdfStreams :
          call = [fn |-> "_process_pdf", doc_id |-> "6f48c255b9", pdf |-> stream]
    /\ ret = NotCalled

CallPdf ==
    /\ call.fn = "_process_pdf"
    /\ ret = NotCalled
    /\ ret' = [out |-> _process_pdf(call, call.doc_id), gen_calls |-> 0]
    /\ UNCHANGED <<call, session_vars>>

NextPdf == CallPdf

SpecPdf == InitPdf /\ [][NextPdf]_vars

\* the concatenation of the sequences chunks[1], ..., chunks[n]
RECURSIVE Concat(_)
Concat(chunks) ==
    IF chunks = <<>> THEN <<>> ELSE Head(chunks) \o Concat(Tail(chunks))

\* the OCR output of a page, empty if OCR failed
OcrOrEmpty(page) == IF IsOk(page.ocr) THEN page.ocr[2] ELSE ""

\* the snippets of a PDF when the text of each page is chosen by direct_suffices
ChunksByPage(pages, doc_id, direct_suffices(_)) ==
    Concat([i \in 1..Len(pages) |->
               _chunk_text_into_snippets(doc_id, i,
                   IF direct_suffices(pages[i]) THEN pages[i].text
                                                ELSE OcrOrEmpty(pages[i]))])

PdfReturned == call.fn = "_process_pdf" /\ ret # NotCalled /\ IsOk(call.pdf)

\* C11 as stated: _process_pdf returns, in page order, the chunker's output for
\* each page's text, the page text being the directly extracted text if its
\* length is at least 100 characters, else the OCR output, else (OCR failed)
\* empty; the document never fails on an OCR failure.
C11_PdfPagesByLength ==
    PdfReturned =>
        ret.out = Ok(ChunksByPage(call.pdf[2], call.doc_id,
                                  LAMBDA page : Len(page.text) >= 100))

\* C11 amended: the same, the length being that of the directly extracted text
\* without its leading and trailing whitespace.
C11_PdfPagesByTrimmedLength ==
    PdfReturned =>
        /\ ret.out = Ok(ChunksByPage(call.pdf[2], call.doc_id,
                                     LAMBDA page : Len(Strip(page.text)) >= 100))
        /\ \A i, j \in 1..Len(ret.out[2]) :
              i < j => ret.out[2][i].page <= ret.out[2][j].page

\* a two-page PDF whose first page is short and failed in OCR and whose second
\* page is long came back as the two snippets of page 2
C11_Witness ==
    /\ PdfReturned
    /\ Len(call.pdf[2]) = 2
    /\ call.pdf[2][1].text = ShortPaddedText
    /\ IsRaise(call.pdf[2][1].ocr)
    /\ call.pdf[2][2].text = LongPageText
    /\ IsOk(ret.out)
    /\ Len(ret.out[2]) = 2
    /\ \A i \in 1..2 : ret.out[2][i].page = 2 /\ ret.out[2][i].paragraph = i

====
